---- MODULE Spec2Model ----
(***************************************************************************)
(* Model of the LTP-system evaluation code: the architecture sweep         *)
(* run_experiment_6a of src/src/ltp_system/plotter/Figure_6a.py with its   *)
(* metric helpers, and the get_trained_* loaders of main_ltp_system.py.    *)
(*                                                                         *)
(* Numbers are exact rationals <<num, den>> (den > 0, lowest terms).       *)
(* A value sqrt(q) is carried as the record [sqrt_of |-> q], so that two   *)
(* roots are equal exactly when their radicands are.  Floating-point       *)
(* rounding is not modelled.                                               *)
(***************************************************************************)
EXTENDS Integers, Sequences, FiniteSets, TLC

VARIABLES
    pc,              \* position inside run_experiment_6a
    options,         \* the options dictionary of the call
    dataset,         \* samples of the file `filename` (physical units)
    w_matrix,        \* options['w_matrix'], a diagonal weight matrix
    prep,            \* the DataPreprocessor object (preprocessed_data)
    fit_count,       \* number of setup_dataset calls so far
    normalized_inputs,
    normalized_targets,
    fs,              \* architectures.csv and results.csv on disk
    archs,           \* random_architectures_list
    idx,             \* loop index over the architectures
    nn_models,       \* the ensemble trained for the current architecture
    ev,              \* values returned by evaluate_model / evaluate_projection
    results,         \* the list `results` of the loop
    df,              \* the returned DataFrame
    log,             \* the calls made so far, in order
    gt,              \* one call of a get_trained_* function
    ra               \* one call of get_random_architectures

vars == <<pc, options, dataset, w_matrix, prep, fit_count, normalized_inputs,
          normalized_targets, fs, archs, idx, nn_models, ev, results, df, log, gt,
          ra>>

(***************************************************************************)
(* Bounds                                                                  *)
(***************************************************************************)
MaxSamples == 2      \* samples in the dataset file
MaxModels == 2       \* n_bootstrap_models
MaxLoss == 1         \* entries of a loss-history array in a checkpoint
MaxLayers == 2       \* hidden layers of a generated architecture
MaxNeurons == 2      \* neurons of a hidden layer
MaxSteps == 2        \* options['n_steps']

(***************************************************************************)
(* Exact rational arithmetic                                               *)
(***************************************************************************)
Abs(i) == IF i < 0 THEN -i ELSE i

RECURSIVE GCD(_, _)
GCD(a, b) == IF b = 0 THEN a ELSE GCD(b, a % b)

Rat(n, d) ==
    LET s == IF d < 0 THEN -1 ELSE 1
        g == GCD(Abs(n), Abs(d))
    IN  <<(s * n) \div g, (s * d) \div g>>

Zero == Rat(0, 1)
One == Rat(1, 1)
RInt(i) == Rat(i, 1)
\* common factors are divided out before multiplying, to keep the integers small
RAdd(a, b) ==
    LET g == GCD(a[2], b[2])
    IN  Rat(a[1] * (b[2] \div g) + b[1] * (a[2] \div g), (a[2] \div g) * b[2])
RSub(a, b) == RAdd(a, <<-b[1], b[2]>>)
RMul(a, b) ==
    LET g == GCD(Abs(a[1]), b[2])
        h == GCD(Abs(b[1]), a[2])
    IN  Rat((a[1] \div g) * (b[1] \div h), (a[2] \div h) * (b[2] \div g))
RDiv(a, b) == RMul(a, IF b[1] < 0 THEN <<-b[2], -b[1]>> ELSE <<b[2], b[1]>>)
RAbs(a) == <<Abs(a[1]), a[2]>>
RSq(a) == RMul(a, a)

\* Op applied to the value of e, which is computed once
Bind(e, Op(_)) == CHOOSE r \in {Op(v) : v \in {e}} : TRUE

RECURSIVE RSumTo(_, _)
RSumTo(s, i) == IF i = 0 THEN Zero ELSE RAdd(RSumTo(s, i - 1), s[i])

\* the sum of a sequence of rationals
RSum(s) == Bind(s, LAMBDA v : RSumTo(v, Len(v)))

(***************************************************************************)
(* Data preprocessing: per-feature scalers of the DataPreprocessor         *)
(***************************************************************************)
\* scaler.transform / scaler.inverse_transform of one feature column
transform(scaler, x) == RDiv(RSub(x, scaler.offset), scaler.scale)
inverse_transform(scaler, y) == RAdd(RMul(y, scaler.scale), scaler.offset)

Scaler(o, s) == [offset |-> o, scale |-> s]

\* the parameters a fit can produce for the one input and the three outputs
ScalerChoices ==
    { [scalers_input |-> <<Scaler(Zero, One)>>,
       scalers_output |-> <<Scaler(Zero, One), Scaler(Zero, One), Scaler(Zero, One)>>],
      [scalers_input |-> <<Scaler(One, One)>>,
       scalers_output |-> <<Scaler(One, RInt(2)), Scaler(Zero, RInt(2)), Scaler(One, RInt(2))>>] }

Unfitted ==
    [fitted |-> FALSE, scalers_input |-> <<>>, scalers_output |-> <<>>,
     skewed_features_in |-> <<>>, skewed_features_out |-> <<>>]

\* DataPreprocessor.setup_dataset: fits the scalers on the given data
setup_dataset(p, fit) ==
    [p EXCEPT !.fitted = TRUE,
              !.scalers_input = fit.scalers_input,
              !.scalers_output = fit.scalers_output]

\* a column-wise scaler.transform over a batch of rows
transform_rows(scalers, rows) ==
    [i \in DOMAIN rows |-> [k \in DOMAIN scalers |-> transform(scalers[k], rows[i][k])]]

\* fit_transform in place of transform: the scalers are refit on the file
load_data_refit(file, preprocessed_data) ==
    LET refit == [preprocessed_data EXCEPT
                    !.scalers_output = [k \in DOMAIN @ |-> Scaler(file[1].y[k], One)]]
    IN  [inputs |-> transform_rows(refit.scalers_input, [i \in DOMAIN file |-> file[i].x]),
         targets |-> transform_rows(refit.scalers_output, [i \in DOMAIN file |-> file[i].y]),
         prep |-> refit]

\* load_data: reads the file and applies the already-fit transforms; the
\* skew lists are empty here, so both log1p branches are skipped
load_data(file, preprocessed_data) ==
    [inputs |-> transform_rows(preprocessed_data.scalers_input,
                               [i \in DOMAIN file |-> file[i].x]),
     targets |-> transform_rows(preprocessed_data.scalers_output,
                                [i \in DOMAIN file |-> file[i].y]),
     prep |-> preprocessed_data]

(***************************************************************************)
(* The toy physical system: three outputs, one linear constraint           *)
(***************************************************************************)
\* Jacobian of the constraint y1 + y2 - y3 = 0
J == <<1, 1, -1>>
OutDims == DOMAIN J

\* residual of the constraint at a de-normalized output vector
constraint(y) == RSum([k \in OutDims |-> RMul(RInt(J[k]), y[k])])

(***************************************************************************)
(* Trained networks and the ensemble aggregator                            *)
(***************************************************************************)
\* a trained network maps the normalized input to a normalized output row
Network(w, b) == [w |-> w, b |-> b]

NetworkChoices ==
    { Network(<<Zero, Zero, RInt(-1)>>, <<One, One, RInt(2)>>),
      Network(<<RInt(5), Rat(1, 5), Rat(2, 5)>>, <<Zero, RInt(2), RInt(4)>>) }

predict(net, x) == [k \in OutDims |-> RAdd(RMul(net.w[k], x[1]), net.b[k])]

\* the outputs of every model on every sample
model_outputs(models, inputs) ==
    [m \in DOMAIN models |-> [i \in DOMAIN inputs |-> predict(models[m], inputs[i])]]

\* mean over the models, per sample and output dimension
mean_of(outputs) ==
    [i \in DOMAIN outputs[1] |->
        [k \in OutDims |->
            RDiv(RSum([m \in DOMAIN outputs |-> outputs[m][i][k]]), RInt(Len(outputs)))]]

get_average_predictions(models, inputs) == Bind(model_outputs(models, inputs), mean_of)

\* standard deviation over the models divided by sqrt(n); zero for n = 1
sem_of(outputs) ==
    LET n == Len(outputs)
        spread(mean) ==
            [i \in DOMAIN mean |->
                [k \in OutDims |->
                    [sqrt_of |->
                        IF n = 1 THEN Zero
                        ELSE RDiv(RSum([m \in DOMAIN outputs |->
                                          RSq(RSub(outputs[m][i][k], mean[i][k]))]),
                                  RInt(n * n))]]]
    IN  Bind(mean_of(outputs), spread)

get_predictive_uncertainty(models, inputs) == Bind(model_outputs(models, inputs), sem_of)

(***************************************************************************)
(* Projection engine                                                       *)
(***************************************************************************)
WChoices == { <<One, One, One>>, <<One, RInt(2), RInt(4)>> }

\* the correction with its sign lost
correction_sign(y, w) ==
    LET jwj == RSum([k \in OutDims |-> RDiv(RInt(J[k] * J[k]), w[k])])
        scaled(factor) == [k \in OutDims |-> RMul(RDiv(RInt(J[k]), w[k]), factor)]
    IN  Bind(RDiv(constraint(y), jwj), scaled)

\* Delta y = - W^-1 J^T (J W^-1 J^T)^-1 r for a diagonal W
correction(y, w) ==
    LET jwj == RSum([k \in OutDims |-> RDiv(RInt(J[k] * J[k]), w[k])])
        scaled(factor) ==
            [k \in OutDims |-> RSub(Zero, RMul(RDiv(RInt(J[k]), w[k]), factor))]
    IN  Bind(RDiv(constraint(y), jwj), scaled)

denormalize(row, p) ==
    [k \in OutDims |-> inverse_transform(p.scalers_output[k], row[k])]
normalize(row, p) ==
    [k \in OutDims |-> transform(p.scalers_output[k], row[k])]

\* the corrected sample left in physical units
project_physical(row, p, w) ==
    LET corrected(y) == Bind(correction(y, w), LAMBDA dy : [k \in OutDims |-> RAdd(y[k], dy[k])])
    IN  Bind(denormalize(row, p), corrected)

\* one sample: de-normalize, correct, re-normalize
project(row, p, w) ==
    LET corrected(y) == Bind(correction(y, w), LAMBDA dy : [k \in OutDims |-> RAdd(y[k], dy[k])])
    IN  normalize(Bind(denormalize(row, p), corrected), p)

get_average_predictions_projected(predictions, inputs, p, w) ==
    [i \in DOMAIN predictions |-> project(predictions[i], p, w)]

(***************************************************************************)
(* Evaluation layer                                                        *)
(***************************************************************************)
\* one term of sklearn's mean_absolute_percentage_error,
\* |pred - true| / max(|true|, eps): a value finite + over_eps / eps, eps the
\* float64 machine epsilon.  Every non-zero target here is larger than eps.
absolute_percentage_error(y_true, y_pred) ==
    IF y_true # Zero
    THEN [finite |-> RDiv(RAbs(RSub(y_pred, y_true)), RAbs(y_true)), over_eps |-> Zero]
    ELSE [finite |-> Zero, over_eps |-> RAbs(y_pred)]

\* sklearn: average over the samples of each output, then over the outputs
mean_absolute_percentage_error(y_true, y_pred) ==
    LET n == Len(y_true)
        d == Len(y_true[1])
        averaged(terms) ==
            LET column(k, part) == RDiv(RSum([i \in 1..n |-> terms[i][k][part]]), RInt(n))
            IN  [finite |-> RDiv(RSum([k \in 1..d |-> column(k, "finite")]), RInt(d)),
                 over_eps |-> RDiv(RSum([k \in 1..d |-> column(k, "over_eps")]), RInt(d))]
    IN  Bind([i \in 1..n |->
                [k \in 1..d |-> absolute_percentage_error(y_true[i][k], y_pred[i][k])]],
             averaged)

\* the squared errors averaged over the entries with a non-zero target only
mean_squared_error_masked(y_true, y_pred) ==
    LET kept == {e \in (1..Len(y_true)) \X (1..Len(y_true[1])) : y_true[e[1]][e[2]] # Zero}
    IN  RDiv(RSum([i \in 1..Len(y_true) |->
                    RSum([k \in 1..Len(y_true[1]) |->
                            IF <<i, k>> \in kept
                            THEN RSq(RSub(y_true[i][k], y_pred[i][k])) ELSE Zero])]),
             RInt(Cardinality(kept)))

\* sklearn: mean of the squared errors of each output, then over the outputs
mean_squared_error(y_true, y_pred) ==
    LET n == Len(y_true)
        d == Len(y_true[1])
        column(k) == RDiv(RSum([i \in 1..n |-> RSq(RSub(y_true[i][k], y_pred[i][k]))]),
                          RInt(n))
    IN  RDiv(RSum([k \in 1..d |-> column(k)]), RInt(d))

rmse_of(y_true, y_pred) == [sqrt_of |-> mean_squared_error(y_true, y_pred)]

\* non_zero_mask = target_row != 0
non_zero_mask(target_row) == {k \in DOMAIN target_row : target_row[k] # Zero}

\* torch.sum((uncertainty_row[mask] / target_row[mask]) ** 2) of one sample
RECURSIVE masked_sum(_, _, _)
masked_sum(target_row, uncertainty_row, mask) ==
    IF mask = {} THEN Zero
    ELSE LET k == CHOOSE x \in mask : TRUE
         IN  RAdd(RDiv(uncertainty_row[k].sqrt_of, RSq(target_row[k])),
                  masked_sum(target_row, uncertainty_row, mask \ {k}))

\* the loop over the samples, after the first i of them
RECURSIVE mape_uncertainty_sum(_, _, _)
mape_uncertainty_sum(targets, uncertainty, i) ==
    IF i = 0 THEN Zero
    ELSE RAdd(mape_uncertainty_sum(targets, uncertainty, i - 1),
              masked_sum(targets[i], uncertainty[i], non_zero_mask(targets[i])))

\* without the mask a zero target divides by zero: 0 / 0 is nan, x / 0 is inf
get_mape_uncertainty_unmasked(targets, uncertainty) ==
    LET n == Len(targets)
        zeros == {<<i, k>> \in (1..n) \X OutDims : targets[i][k] = Zero}
    IN  IF zeros = {}
        THEN [sqrt_of |-> RDiv(mape_uncertainty_sum(targets, uncertainty, n), RInt(n * n))]
        ELSE IF \E e \in zeros : uncertainty[e[1]][e[2]].sqrt_of = Zero
             THEN [sqrt_of |-> <<0, 0>>]
             ELSE [sqrt_of |-> <<1, 0>>]

\* a sample with any zero target dropped as a whole
get_mape_uncertainty_per_sample(targets, uncertainty) ==
    LET n == Len(targets)
        kept == [i \in 1..n |->
                    IF non_zero_mask(targets[i]) = DOMAIN targets[i]
                    THEN masked_sum(targets[i], uncertainty[i], DOMAIN targets[i])
                    ELSE Zero]
    IN  [sqrt_of |-> RDiv(RSum(kept), RInt(n * n))]

\* get_mape_uncertainty: np.sqrt(mape_uncertainty) / n
get_mape_uncertainty(targets, uncertainty) ==
    LET n == Len(targets)
    IN  [sqrt_of |-> RDiv(mape_uncertainty_sum(targets, uncertainty, n), RInt(n * n))]

evaluate_model(models, inputs, targets) ==
    LET returned(predictions, uncertainty) ==
            [mape |-> mean_absolute_percentage_error(targets, predictions),
             mape_uncertainty |-> get_mape_uncertainty(targets, uncertainty),
             normalized_model_predictions |-> predictions,
             pred_uncertainty |-> uncertainty,
             rmse |-> rmse_of(targets, predictions)]
        with(predictions) ==
            Bind(get_predictive_uncertainty(models, inputs),
                 LAMBDA uncertainty : returned(predictions, uncertainty))
    IN  Bind(get_average_predictions(models, inputs), with)

evaluate_projection(predictions, targets, inputs, p, w) ==
    LET returned(projected) ==
            [mape |-> mean_absolute_percentage_error(targets, projected),
             rmse |-> rmse_of(targets, projected),
             normalized_proj_predictions |-> projected]
    IN  Bind(get_average_predictions_projected(predictions, inputs, p, w), returned)

\* sum(layer_config[i] * layer_config[i+1] for i in range(first - 1, len(layer_config) - 1))
RECURSIVE sum_of_products(_, _)
sum_of_products(layer_config, first) ==
    IF first > Len(layer_config) - 1 THEN 0
    ELSE layer_config[first] * layer_config[first + 1] + sum_of_products(layer_config, first + 1)

\* sum(values)
RECURSIVE sum(_)
sum(values) == IF values = <<>> THEN 0 ELSE values[1] + sum(Tail(values))

\* compute_parameters: the value returned for the network [3] + layer_config + [17]
compute_parameters(layer_config) ==
    LET layers == <<3>> \o layer_config \o <<17>>
        hidden_layers == SubSeq(layers, 2, Len(layers) - 1)
        n_weights == sum_of_products(layers, 1)
        n_biases == sum(hidden_layers)
    IN  n_weights + n_biases

(***************************************************************************)
(* Files and tables                                                        *)
(***************************************************************************)
\* str(int) and int(str) of a non-negative integer, as its decimal digits
RECURSIVE str(_)
str(i) == IF i < 10 THEN <<i>> ELSE Append(str(i \div 10), i % 10)

RECURSIVE int(_)
int(digits) ==
    IF Len(digits) = 1 THEN digits[1]
    ELSE 10 * int(SubSeq(digits, 1, Len(digits) - 1)) + digits[Len(digits)]

\* csv.writer(...).writerows and csv.reader with the int() conversion
writerows(rows) == [i \in DOMAIN rows |-> [k \in DOMAIN rows[i] |-> str(rows[i][k])]]
read_architectures(text) == [i \in DOMAIN text |-> [k \in DOMAIN text[i] |-> int(text[i][k])]]

\* the lists get_random_architectures can return, one architecture per bin
ArchitectureLists ==
    { <<<<2>>>>, <<<<2>>, <<1>>>> }

\* training time reported by get_trained_bootstraped_models
TrainingTimes == {5}

\* a results.csv left by an earlier run
EarlierResults ==
    [columns |-> <<"architectures", "num_params", "mapes_nn", "uncertanties_mape_nn",
                   "mapes_proj", "rmses_nn", "rmses_proj", "model_training_time">>,
     rows |-> <<>>]

\* the table with a params column and no architectures column
data_frame_params(architectures, res) ==
    [columns |-> <<"params", "mapes_nn", "uncertanties_mape_nn", "mapes_proj", "rmses_nn",
                   "rmses_proj", "model_training_time">>,
     rows |-> [i \in DOMAIN res |->
                [architectures |-> architectures[i],
                 num_params |-> res[i][1],
                 mapes_nn |-> res[i][2],
                 uncertanties_mape_nn |-> res[i][3],
                 mapes_proj |-> res[i][4],
                 rmses_nn |-> res[i][5],
                 rmses_proj |-> res[i][6],
                 model_training_time |-> res[i][7]]]]

\* the dictionary `data` of run_experiment_6a as a table: the keys in order,
\* one row per position of the zipped results
data_frame(architectures, res) ==
    [columns |-> <<"architectures", "num_params", "mapes_nn", "uncertanties_mape_nn",
                   "mapes_proj", "rmses_nn", "rmses_proj", "model_training_time">>,
     rows |-> [i \in DOMAIN res |->
                [architectures |-> architectures[i],
                 num_params |-> res[i][1],
                 mapes_nn |-> res[i][2],
                 uncertanties_mape_nn |-> res[i][3],
                 mapes_proj |-> res[i][4],
                 rmses_nn |-> res[i][5],
                 rmses_proj |-> res[i][6],
                 model_training_time |-> res[i][7]]]]

\* the orders df.sort_values(by='num_params', ascending=True) can produce
\* (the default sort is not stable)
sort_values_unsorted(rows) == {rows}
sort_values(rows) ==
    { [i \in DOMAIN rows |-> rows[perm[i]]] :
        perm \in { q \in [DOMAIN rows -> DOMAIN rows] :
                     /\ \A a, b \in DOMAIN rows : a # b => q[a] # q[b]
                     /\ \A a, b \in DOMAIN rows :
                          a < b => rows[q[a]].num_params <= rows[q[b]].num_params } }

(***************************************************************************)
(* run_experiment_6a                                                       *)
(***************************************************************************)
Sample(x, y) == [x |-> <<RInt(x)>>, y |-> <<RInt(y[1]), RInt(y[2]), RInt(y[3])>>]

SampleChoices ==
    { Sample(1, <<0, 2, 4>>), Sample(0, <<2, -1, 1>>) }

Datasets == UNION { [1..n -> SampleChoices] : n \in 1..MaxSamples }

NoEval == [stage |-> "none", training_time |-> 0, nn |-> <<>>, proj |-> <<>>]
NoFrame == [columns |-> <<>>, rows |-> <<>>]
File(exists, content) == [exists |-> exists, content |-> content]
NoCall ==
    [fn |-> "none", pc |-> "idle", RETRAIN_MODEL |-> FALSE,
     checkpoint |-> [exists |-> FALSE, losses_train_mean |-> 0, losses_val_mean |-> 0,
                     epoch |-> 0],
     trainings |-> 0, loads |-> 0, returned |-> "nothing",
     error |-> [type |-> "none", message |-> ""]]

\* no call of get_random_architectures is in progress
NoArchitectures ==
    [pc |-> "idle", options |-> <<>>, bins |-> <<>>, bin_filled |-> <<>>,
     architectures_list |-> <<>>]

Event(call, i, p) == [call |-> call, idx |-> i, prep |-> p]

Init ==
    /\ pc = "start"
    /\ dataset \in Datasets
    /\ options \in [RETRAIN_MODEL : BOOLEAN,
                    n_bootstrap_models : 1..MaxModels,
                    n_steps : {Len(l) : l \in ArchitectureLists}]
    /\ w_matrix \in WChoices
    /\ prep = Unfitted
    /\ fit_count = 0
    /\ normalized_inputs = <<>>
    /\ normalized_targets = <<>>
    /\ fs \in { [dir |-> FALSE, architectures |-> File(FALSE, <<>>),
                 results |-> File(FALSE, NoFrame)],
                [dir |-> TRUE, architectures |-> File(FALSE, <<>>),
                 results |-> File(FALSE, NoFrame)],
                [dir |-> TRUE, architectures |-> File(TRUE, writerows(<<<<2>>, <<1>>>>)),
                 results |-> File(TRUE, EarlierResults)] }
    /\ archs = <<>>
    /\ idx = 0
    /\ nn_models = <<>>
    /\ ev = NoEval
    /\ results = <<>>
    /\ df = NoFrame
    /\ log = <<>>
    /\ gt = NoCall
    /\ ra = NoArchitectures

\* lines 246-248: load the file, build the preprocessor and fit it
SetupDataset ==
    /\ pc = "start"
    /\ \E fit \in ScalerChoices : prep' = setup_dataset(prep, fit)
    /\ fit_count' = fit_count + 1
    /\ log' = Append(log, Event("setup_dataset", 0, prep'))
    /\ pc' = "load_data"
    /\ UNCHANGED <<options, dataset, w_matrix, normalized_inputs, normalized_targets,
                   fs, archs, idx, nn_models, ev, results, df, gt, ra>>

\* line 249
LoadData ==
    /\ pc = "load_data"
    /\ LET loaded == load_data(dataset, prep)
       IN  /\ normalized_inputs' = loaded.inputs
           /\ normalized_targets' = loaded.targets
           /\ prep' = loaded.prep
    /\ log' = Append(log, Event("load_data", 0, prep))
    /\ pc' = "architectures"
    /\ UNCHANGED <<options, dataset, w_matrix, fit_count, fs, archs, idx, nn_models,
                   ev, results, df, gt, ra>>

\* lines 254-258: draw the architectures and write architectures.csv
WriteArchitectures ==
    /\ pc = "architectures"
    /\ options.RETRAIN_MODEL
    /\ \E l \in ArchitectureLists :
          /\ Len(l) = options.n_steps
          /\ archs' = l
          /\ IF fs.dir
             THEN /\ fs' = [fs EXCEPT !.architectures = File(TRUE, writerows(l))]
                  /\ log' = Append(log, Event("write_architectures", 0, prep))
                  /\ pc' = "plot"
             ELSE /\ fs' = fs
                  /\ log' = log
                  /\ pc' = "FileNotFoundError"
    /\ UNCHANGED <<options, dataset, w_matrix, prep, fit_count, normalized_inputs,
                   normalized_targets, idx, nn_models, ev, results, df, gt, ra>>

\* lines 259-264: read architectures.csv of an earlier run
ReadArchitectures ==
    /\ pc = "architectures"
    /\ ~options.RETRAIN_MODEL
    /\ IF ~fs.architectures.exists
       THEN /\ archs' = <<>>
            /\ pc' = "FileNotFoundError"
       ELSE /\ archs' = read_architectures(fs.architectures.content)
            /\ pc' = "plot"
    /\ UNCHANGED <<options, dataset, w_matrix, prep, fit_count, normalized_inputs,
                   normalized_targets, fs, idx, nn_models, ev, results, df, log, gt, ra>>

\* lines 266-269: the histogram, then the branch on RETRAIN_MODEL
PlotHistogram ==
    /\ pc = "plot"
    /\ log' = Append(log, Event("plot_histogram_with_params", 0, prep))
    /\ pc' = IF options.RETRAIN_MODEL THEN "train" ELSE "read_results"
    /\ UNCHANGED <<options, dataset, w_matrix, prep, fit_count, normalized_inputs,
                   normalized_targets, fs, archs, idx, nn_models, ev, results, df, gt, ra>>

\* lines 273-278: get_trained_nn with RETRAIN_MODEL true trains the ensemble
Train ==
    /\ pc = "train"
    /\ nn_models' \in [1..options.n_bootstrap_models -> NetworkChoices]
    /\ \E t \in TrainingTimes : ev' = [NoEval EXCEPT !.stage = "trained", !.training_time = t]
    /\ log' = Append(log, Event("get_trained_nn", idx, prep))
    /\ pc' = "evaluate_model"
    /\ UNCHANGED <<options, dataset, w_matrix, prep, fit_count, normalized_inputs,
                   normalized_targets, fs, archs, idx, results, df, gt, ra>>

\* line 282
EvaluateModel ==
    /\ pc = "evaluate_model"
    /\ ev' = [ev EXCEPT !.stage = "model",
                         !.nn = evaluate_model(nn_models, normalized_inputs, normalized_targets)]
    /\ log' = Append(log, Event("evaluate_model", idx, prep))
    /\ pc' = "evaluate_projection"
    /\ UNCHANGED <<options, dataset, w_matrix, prep, fit_count, normalized_inputs,
                   normalized_targets, fs, archs, idx, nn_models, results, df, gt, ra>>

\* line 285
EvaluateProjection ==
    /\ pc = "evaluate_projection"
    /\ ev' = [ev EXCEPT !.stage = "projection", !.proj =
                evaluate_projection(ev.nn.normalized_model_predictions, normalized_targets,
                                    normalized_inputs, prep, w_matrix)]
    /\ log' = Append(log, Event("evaluate_projection", idx, prep))
    /\ pc' = "append"
    /\ UNCHANGED <<options, dataset, w_matrix, prep, fit_count, normalized_inputs,
                   normalized_targets, fs, archs, idx, nn_models, results, df, gt, ra>>

\* lines 287-288, and the step of the for loop
AppendResult ==
    /\ pc = "append"
    /\ results' = Append(results,
                         <<compute_parameters(archs[idx + 1]), ev.nn.mape,
                           ev.nn.mape_uncertainty, ev.proj.mape, ev.nn.rmse, ev.proj.rmse,
                           ev.training_time>>)
    /\ log' = Append(log, Event("append", idx, prep))
    /\ idx' = idx + 1
    /\ pc' = IF idx + 1 < Len(archs) THEN "train" ELSE "write_results"
    /\ UNCHANGED <<options, dataset, w_matrix, prep, fit_count, normalized_inputs,
                   normalized_targets, fs, archs, nn_models, ev, df, gt, ra>>

\* lines 290-306
WriteResults ==
    /\ pc = "write_results"
    /\ LET frame == data_frame(archs, results)
       IN  \E sorted \in sort_values(frame.rows) :
              /\ df' = [frame EXCEPT !.rows = sorted]
              /\ fs' = [fs EXCEPT !.results = File(TRUE, df')]
    /\ log' = Append(log, Event("write_results", idx, prep))
    /\ pc' = "done"
    /\ UNCHANGED <<options, dataset, w_matrix, prep, fit_count, normalized_inputs,
                   normalized_targets, archs, idx, nn_models, ev, results, gt, ra>>

\* lines 307-309
ReadResults ==
    /\ pc = "read_results"
    /\ IF ~fs.results.exists
       THEN /\ df' = df
            /\ pc' = "FileNotFoundError"
       ELSE /\ df' = fs.results.content
            /\ pc' = "done"
    /\ UNCHANGED <<options, dataset, w_matrix, prep, fit_count, normalized_inputs,
                   normalized_targets, fs, archs, idx, nn_models, ev, results, log, gt, ra>>

Next ==
    \/ SetupDataset
    \/ LoadData
    \/ WriteArchitectures
    \/ ReadArchitectures
    \/ PlotHistogram
    \/ Train
    \/ EvaluateModel
    \/ EvaluateProjection
    \/ AppendResult
    \/ WriteResults
    \/ ReadResults

Spec == Init /\ [][Next]_vars

(***************************************************************************)
(* get_trained_nn / get_trained_pinn (main_ltp_system.py) and              *)
(* get_trained_nn (Figure_6a.py), called on their own                      *)
(***************************************************************************)
TrainedFunctions == {"main.get_trained_nn", "main.get_trained_pinn", "Figure_6a.get_trained_nn"}

\* the checkpoint directory: no checkpoint file, or one with its loss history
Checkpoints ==
    {[exists |-> FALSE, losses_train_mean |-> 0, losses_val_mean |-> 0, epoch |-> 0]}
    \cup [exists : {TRUE}, losses_train_mean : 0..MaxLoss, losses_val_mean : 0..MaxLoss,
          epoch : 0..MaxLoss]

NoError == [type |-> "none", message |-> ""]

InitTrain ==
    /\ gt \in [fn : TrainedFunctions, pc : {"call"}, RETRAIN_MODEL : BOOLEAN,
               checkpoint : Checkpoints, trainings : {0}, loads : {0},
               returned : {"nothing"}, error : {NoError}]
    /\ pc = "idle"
    /\ dataset \in [1..1 -> SampleChoices]
    /\ options = [RETRAIN_MODEL |-> gt.RETRAIN_MODEL, n_bootstrap_models |-> 1, n_steps |-> 1]
    /\ w_matrix = <<One, One, One>>
    /\ prep = Unfitted
    /\ fit_count = 0
    /\ normalized_inputs = <<>>
    /\ normalized_targets = <<>>
    /\ fs = [dir |-> TRUE, architectures |-> File(FALSE, <<>>), results |-> File(FALSE, NoFrame)]
    /\ archs = <<>>
    /\ idx = 0
    /\ nn_models = <<>>
    /\ ev = NoEval
    /\ results = <<>>
    /\ df = NoFrame
    /\ log = <<>>
    /\ ra = NoArchitectures

RunIdle ==
    UNCHANGED <<pc, options, dataset, w_matrix, normalized_inputs, normalized_targets,
                fs, archs, idx, nn_models, ev, results, df, ra>>

\* the caller fits the preprocessing once (main 44-45, Figure_6a 247-248)
CallerSetup ==
    /\ gt.pc = "call"
    /\ \E fit \in ScalerChoices : prep' = setup_dataset(prep, fit)
    /\ fit_count' = fit_count + 1
    /\ log' = Append(log, Event("setup_dataset", 0, prep'))
    /\ gt' = [gt EXCEPT !.pc = "prepare"]
    /\ RunIdle

\* the body before the branch: checkpoint directory, data, validation loader
Prepare ==
    /\ gt.pc = "prepare"
    /\ log' = Append(log, Event(gt.fn, 0, prep))
    /\ gt' = [gt EXCEPT !.pc = "branch"]
    /\ UNCHANGED <<prep, fit_count>>
    /\ RunIdle

\* get_trained_bootstraped_models(...)
train(g) == [g EXCEPT !.trainings = @ + 1, !.returned = "trained models"]

\* the handler of FileNotFoundError that trains instead of raising
on_missing_checkpoint_train(g) == [train(g) EXCEPT !.pc = "returned"]

\* except FileNotFoundError: raise ValueError(...)
on_missing_checkpoint(g) ==
    [g EXCEPT !.pc = "raised",
              !.error = [type |-> "ValueError",
                         message |-> "Checkpoint not found. Set RETRAIN_MODEL to True or provide a valid checkpoint."]]

\* if config[...]['RETRAIN_MODEL']: train and return
Retrain ==
    /\ gt.pc = "branch"
    /\ gt.RETRAIN_MODEL
    /\ gt' = [train(gt) EXCEPT !.pc = "returned"]
    /\ UNCHANGED <<prep, fit_count, log>>
    /\ RunIdle

\* else: try load_checkpoints(...)
LoadCheckpoints ==
    /\ gt.pc = "branch"
    /\ ~gt.RETRAIN_MODEL
    /\ gt' = IF ~gt.checkpoint.exists
             THEN on_missing_checkpoint([gt EXCEPT !.loads = @ + 1])
             ELSE [gt EXCEPT !.loads = @ + 1,
                             !.returned = "loaded models",
                             !.pc = IF gt.fn = "Figure_6a.get_trained_nn"
                                    THEN "returned" ELSE "check_losses"]
    /\ UNCHANGED <<prep, fit_count, log>>
    /\ RunIdle

\* every array of the loss history is empty
empty_loss_history_all(checkpoint) ==
    /\ checkpoint.losses_train_mean = 0
    /\ checkpoint.losses_val_mean = 0
    /\ checkpoint.epoch = 0

\* losses_train_mean.size == 0 or losses_val_mean.size == 0 or epoch.size == 0
empty_loss_history(checkpoint) ==
    \/ checkpoint.losses_train_mean = 0
    \/ checkpoint.losses_val_mean = 0
    \/ checkpoint.epoch = 0

\* main only: an empty loss history retrains the model
CheckLosses ==
    /\ gt.pc = "check_losses"
    /\ gt' = IF empty_loss_history(gt.checkpoint)
             THEN [train(gt) EXCEPT !.pc = "returned"]
             ELSE [gt EXCEPT !.pc = "returned"]
    /\ UNCHANGED <<prep, fit_count, log>>
    /\ RunIdle

NextTrain ==
    \/ CallerSetup
    \/ Prepare
    \/ Retrain
    \/ LoadCheckpoints
    \/ CheckLosses

SpecTrain == InitTrain /\ [][NextTrain]_vars

(***************************************************************************)
(* get_random_architectures (Figure_6a.py), called on its own               *)
(***************************************************************************)
RLeq(a, b) == a[1] * b[2] <= b[1] * a[2]
RLess(a, b) == a[1] * b[2] < b[1] * a[2]

\* options of the call, with min <= max and n_steps >= 1
ArchOptions ==
    { o \in [min_hidden_layers : 1..MaxLayers, max_hidden_layers : 1..MaxLayers,
             min_neurons_per_layer : 1..MaxNeurons, max_neurons_per_layer : 1..MaxNeurons,
             n_steps : 1..MaxSteps] :
        /\ o.min_hidden_layers <= o.max_hidden_layers
        /\ o.min_neurons_per_layer <= o.max_neurons_per_layer }

\* lines 201-206: the architectures random.randint can produce
generate_random_architecture(min_layers, max_layers, min_neurons, max_neurons) ==
    UNION { [1..num_layers -> min_neurons..max_neurons] : num_layers \in min_layers..max_layers }

AllArchitectures == generate_random_architecture(1, MaxLayers, 1, MaxNeurons)

\* [value] * count
repeat(value, count) == [i \in 1..count |-> value]

\* np.linspace(start, stop, num): num evenly spaced values, both ends included
linspace(start, stop, num) ==
    LET y(step) == [i \in 1..num |-> Bind(RMul(RInt(i - 1), step),
                                          LAMBDA offset : RAdd(RInt(start), offset))]
    IN  Bind(RDiv(RInt(stop - start), RInt(num - 1)), y)

\* lines 233-234: the bins the for loop would accept total_params into
free_bins_any(bins, bin_filled, total_params) ==
    { i \in 1..(Len(bins) - 1) :
        RLeq(bins[i], RInt(total_params)) /\ RLess(RInt(total_params), bins[i + 1]) }
free_bins(bins, bin_filled, total_params) ==
    { i \in 1..(Len(bins) - 1) :
        /\ RLeq(bins[i], RInt(total_params)) /\ RLess(RInt(total_params), bins[i + 1])
        /\ ~bin_filled[i] }

Min(S) == CHOOSE i \in S : \A j \in S : i <= j

InitArch ==
    /\ ra \in [pc : {"call"}, options : ArchOptions, bins : {<<>>}, bin_filled : {<<>>},
               architectures_list : {<<>>}]
    /\ gt = NoCall
    /\ pc = "idle"
    /\ dataset = <<>>
    /\ options = [RETRAIN_MODEL |-> TRUE, n_bootstrap_models |-> 1, n_steps |-> ra.options.n_steps]
    /\ w_matrix = <<One, One, One>>
    /\ prep = Unfitted
    /\ fit_count = 0
    /\ normalized_inputs = <<>>
    /\ normalized_targets = <<>>
    /\ fs = [dir |-> TRUE, architectures |-> File(FALSE, <<>>), results |-> File(FALSE, NoFrame)]
    /\ archs = <<>>
    /\ idx = 0
    /\ nn_models = <<>>
    /\ ev = NoEval
    /\ results = <<>>
    /\ df = NoFrame
    /\ log = <<>>

ArchIdle ==
    UNCHANGED <<pc, options, dataset, w_matrix, prep, fit_count, normalized_inputs,
                normalized_targets, fs, archs, idx, nn_models, ev, results, df, log, gt>>

\* lines 209-223: the parameter range, the bins and the empty list
SetupBins ==
    /\ ra.pc = "call"
    /\ LET o == ra.options
           min_parameters ==
               compute_parameters(repeat(o.min_neurons_per_layer, o.min_hidden_layers))
           max_parameters ==
               compute_parameters(repeat(o.max_neurons_per_layer, o.max_hidden_layers))
       IN  ra' = [ra EXCEPT !.pc = "loop",
                            !.bins = linspace(min_parameters, max_parameters, o.n_steps + 1),
                            !.bin_filled = repeat(FALSE, o.n_steps),
                            !.architectures_list = <<>>]
    /\ ArchIdle

\* lines 230-237: the body of the while loop for one generated architecture
place(r, architecture) ==
    LET total_params == compute_parameters(architecture)
        free == free_bins(r.bins, r.bin_filled, total_params)
    IN  IF free = {} THEN r
        ELSE [r EXCEPT !.architectures_list = Append(@, architecture),
                       !.bin_filled[Min(free)] = TRUE]

\* lines 225-237: one iteration of the while loop, which generated `architecture`
Iterate(architecture) ==
    /\ ra.pc = "loop"
    /\ Len(ra.architectures_list) < ra.options.n_steps
    /\ architecture \in generate_random_architecture(
           ra.options.min_hidden_layers, ra.options.max_hidden_layers,
           ra.options.min_neurons_per_layer, ra.options.max_neurons_per_layer)
    /\ ra' = place(ra, architecture)
    /\ ArchIdle

\* lines 225, 239: the loop condition fails and the list is returned
ReturnArchitectures ==
    /\ ra.pc = "loop"
    /\ ~(Len(ra.architectures_list) < ra.options.n_steps)
    /\ ra' = [ra EXCEPT !.pc = "returned"]
    /\ ArchIdle

NextArch ==
    \/ SetupBins
    \/ \E architecture \in AllArchitectures : Iterate(architecture)
    \/ ReturnArchitectures

SpecArch == InitArch /\ [][NextArch]_vars

\* fair random sampling: an architecture that stays acceptable is eventually generated
FairSampling ==
    /\ WF_vars(SetupBins)
    /\ \A architecture \in AllArchitectures : WF_vars(Iterate(architecture))
    /\ WF_vars(ReturnArchitectures)

SpecArchFair == SpecArch /\ FairSampling

(***************************************************************************)
(* Properties                                                              *)
(***************************************************************************)
\* evaluate_model, and evaluate_projection, have just returned
Evaluated == pc \in {"evaluate_projection", "append"}
Projected == pc = "append"

\* the (sample, dimension) entries of the batch, numbered row by row
Entries == 1..(Len(normalized_targets) * Len(J))
SampleOf(e) == ((e - 1) \div Len(J)) + 1
DimOf(e) == ((e - 1) % Len(J)) + 1
TargetAt(e) == normalized_targets[SampleOf(e)][DimOf(e)]
NonZeroEntries == {e \in Entries : TargetAt(e) # Zero}

\* mean of |pred - target| / |target| over the entries with a non-zero target
MapeOverNonZero(predictions) ==
    RDiv(RSum([e \in Entries |->
                IF TargetAt(e) = Zero THEN Zero
                ELSE RDiv(RAbs(RSub(predictions[SampleOf(e)][DimOf(e)], TargetAt(e))),
                          RAbs(TargetAt(e)))]),
         RInt(Cardinality(NonZeroEntries)))

\* C1: the MAPE of evaluate_model and of evaluate_projection is the mean of
\* |pred - target| / |target| over the entries whose target is non-zero only.
C1_MapeExcludesZeroTargets ==
    /\ (Evaluated /\ NonZeroEntries # {}) =>
          ev.nn.mape = [finite |-> MapeOverNonZero(ev.nn.normalized_model_predictions),
                        over_eps |-> Zero]
    /\ (Projected /\ NonZeroEntries # {}) =>
          ev.proj.mape = [finite |-> MapeOverNonZero(ev.proj.normalized_proj_predictions),
                          over_eps |-> Zero]

\* C2: get_mape_uncertainty returns sqrt(sum of (sigma / t)^2 over every entry
\* with t # 0) / n, n the number of samples; the exclusion is per entry.
C2_MapeUncertaintyFormula ==
    Evaluated =>
        ev.nn.mape_uncertainty =
            [sqrt_of |->
                RDiv(RSum([e \in Entries |->
                            IF TargetAt(e) = Zero THEN Zero
                            ELSE RDiv(ev.nn.pred_uncertainty[SampleOf(e)][DimOf(e)].sqrt_of,
                                      RMul(TargetAt(e), TargetAt(e)))]),
                     RInt(Len(normalized_targets) * Len(normalized_targets)))]

\* a sample with a zero target still contributes a non-zero term of another dimension
C2_Witness ==
    /\ Evaluated
    /\ \E i \in DOMAIN normalized_targets :
          /\ \E k \in OutDims : normalized_targets[i][k] = Zero
          /\ \E k \in OutDims :
                /\ normalized_targets[i][k] # Zero
                /\ ev.nn.pred_uncertainty[i][k].sqrt_of # Zero
    /\ ev.nn.mape_uncertainty.sqrt_of[1] > 0

\* an entry contributes to a metric when changing its value changes the metric
Bumped(batch, e, by) ==
    [batch EXCEPT ![SampleOf(e)][DimOf(e)] = RAdd(@, RInt(by))]
BumpedUncertainty(batch, e) ==
    [batch EXCEPT ![SampleOf(e)][DimOf(e)] = [sqrt_of |-> RAdd(@.sqrt_of, One)]]
MapeEntries ==
    {e \in Entries :
        \E by \in {1, 2} :
            mean_absolute_percentage_error(
                normalized_targets, Bumped(ev.nn.normalized_model_predictions, e, by))
            # ev.nn.mape}
UncertaintyEntries ==
    {e \in Entries :
        get_mape_uncertainty(normalized_targets, BumpedUncertainty(ev.nn.pred_uncertainty, e))
        # ev.nn.mape_uncertainty}

\* C3: within one evaluate_model call the entries that contribute to the MAPE
\* uncertainty are exactly the entries that contribute to the MAPE.
C3_SameMask == (pc = "evaluate_projection") => MapeEntries = UncertaintyEntries

\* C4: with retraining disabled and no checkpoint file, the function trains
\* nothing, returns nothing and raises the error that names the two remedies.
C4_MissingCheckpoint ==
    (~gt.RETRAIN_MODEL /\ ~gt.checkpoint.exists) =>
        /\ gt.trainings = 0
        /\ gt.returned = "nothing"
        /\ gt.pc # "returned"
        /\ (gt.loads > 0) =>
              /\ gt.pc = "raised"
              /\ gt.error = [type |-> "ValueError",
                             message |-> "Checkpoint not found. Set RETRAIN_MODEL to True or provide a valid checkpoint."]

C4_Witness ==
    /\ gt.pc = "raised"
    /\ ~gt.RETRAIN_MODEL
    /\ ~gt.checkpoint.exists
    /\ gt.loads = 1

\* residual of the constraint at the raw prediction of sample i
ResidualAt(i) == constraint(denormalize(ev.nn.normalized_model_predictions[i], prep))

\* C5: a sample whose constraint residual is zero at the raw prediction gets
\* the zero correction: its projected prediction equals its raw prediction.
C5_ZeroResidualUnchanged ==
    Projected =>
        \A i \in DOMAIN normalized_targets :
            ResidualAt(i) = Zero =>
                ev.proj.normalized_proj_predictions[i] = ev.nn.normalized_model_predictions[i]

C5_Witness ==
    /\ Projected
    /\ prep.scalers_output[1] # Scaler(Zero, One)
    /\ \E i \in DOMAIN normalized_targets : ResidualAt(i) = Zero
    /\ \E i \in DOMAIN normalized_targets : ResidualAt(i) # Zero

\* C6: raw prediction [1, 1, 1] with the identity weight is projected to
\* [1 - 1/3, 1 - 1/3, 1 + 1/3], which satisfies y1 + y2 - y3 = 0.
C6_ToyProjection ==
    (Projected /\ w_matrix = <<One, One, One>>) =>
        \A i \in DOMAIN normalized_targets :
            denormalize(ev.nn.normalized_model_predictions[i], prep) = <<One, One, One>> =>
                /\ denormalize(ev.proj.normalized_proj_predictions[i], prep)
                     = <<Rat(2, 3), Rat(2, 3), Rat(4, 3)>>
                /\ constraint(denormalize(ev.proj.normalized_proj_predictions[i], prep)) = Zero

C6_Witness ==
    /\ Projected
    /\ w_matrix = <<One, One, One>>
    /\ \E i \in DOMAIN normalized_targets :
          /\ denormalize(ev.nn.normalized_model_predictions[i], prep) = <<One, One, One>>
          /\ ResidualAt(i) = One

C8_FitOnce ==
    /\ fit_count <= 1
    /\ (pc # "start") => (fit_count = 1 /\ prep.fitted)
    /\ \A j \in DOMAIN log :
          /\ log[j].prep = prep
          /\ (log[j].call = "setup_dataset") = (j = 1)

C8_Witness ==
    /\ pc = "done"
    /\ \E j \in DOMAIN log : log[j].call = "load_data"
    /\ \E j \in DOMAIN log : log[j].call = "get_trained_nn" /\ log[j].idx = 1
    /\ \E j \in DOMAIN log : log[j].call = "evaluate_projection"
    /\ prep.scalers_output[1] # Scaler(Zero, One)

ColumnSet(frame) == {frame.columns[j] : j \in DOMAIN frame.columns}

\* C9 as stated: results.csv has exactly the columns {params, mapes_nn,
\* uncertanties_mape_nn, mapes_proj, rmses_nn, rmses_proj, model_training_time}.
C9_Original ==
    (pc = "done" /\ options.RETRAIN_MODEL) =>
        /\ ColumnSet(fs.results.content) =
              {"params", "mapes_nn", "uncertanties_mape_nn", "mapes_proj", "rmses_nn",
               "rmses_proj", "model_training_time"}
        /\ Len(fs.results.content.rows) = Len(archs)

\* C9 amended: results.csv has exactly the columns {architectures, num_params,
\* mapes_nn, uncertanties_mape_nn, mapes_proj, rmses_nn, rmses_proj,
\* model_training_time}, with one row per evaluated architecture.
C9_Columns ==
    (pc = "done" /\ options.RETRAIN_MODEL) =>
        /\ fs.results.exists
        /\ ColumnSet(fs.results.content) =
              {"architectures", "num_params", "mapes_nn", "uncertanties_mape_nn",
               "mapes_proj", "rmses_nn", "rmses_proj", "model_training_time"}
        /\ Len(fs.results.content.columns) = 8
        /\ Len(fs.results.content.rows) = Len(archs)
        /\ \A a \in DOMAIN archs :
              \E r \in DOMAIN fs.results.content.rows :
                  /\ fs.results.content.rows[r].architectures = archs[a]
                  /\ fs.results.content.rows[r].num_params = results[a][1]

C9_Witness ==
    /\ pc = "done"
    /\ options.RETRAIN_MODEL
    /\ Len(archs) = 2
    /\ fs.results.content.rows[1].architectures = archs[2]

\* sqrt(mean((a - b)^2)) over all the entries, none excluded
RmseOverAll(a, b) ==
    [sqrt_of |->
        RDiv(RSum([e \in Entries |->
                    RMul(RSub(a[SampleOf(e)][DimOf(e)], b[SampleOf(e)][DimOf(e)]),
                         RSub(a[SampleOf(e)][DimOf(e)], b[SampleOf(e)][DimOf(e)]))]),
             RInt(Cardinality(Entries)))]

\* C10: the RMSE is sqrt(mean((pred - target)^2)) over all samples and
\* dimensions, and swapping prediction and target leaves it unchanged.
C10_Rmse ==
    /\ Evaluated =>
          /\ ev.nn.rmse = RmseOverAll(ev.nn.normalized_model_predictions, normalized_targets)
          /\ ev.nn.rmse = rmse_of(ev.nn.normalized_model_predictions, normalized_targets)
    /\ Projected =>
          /\ ev.proj.rmse = RmseOverAll(ev.proj.normalized_proj_predictions, normalized_targets)
          /\ ev.proj.rmse = rmse_of(ev.proj.normalized_proj_predictions, normalized_targets)

C10_Witness ==
    /\ Projected
    /\ \E e \in Entries : TargetAt(e) = Zero
    /\ ev.nn.rmse.sqrt_of # Zero
    /\ ev.proj.rmse # ev.nn.rmse

\* C11: under fair sampling, every call of get_random_architectures with
\* min <= max and n_steps >= 1 eventually returns, with exactly n_steps
\* architectures in the returned list
C11_Terminates ==
    <>(ra.pc = "returned" /\ Len(ra.architectures_list) = ra.options.n_steps)

\* weights and biases of the fully-connected network 3 -> layer_config -> 17:
\* in * out weights per consecutive layer pair, one bias per non-input unit
weights_and_biases(layer_config) ==
    LET layers == <<3>> \o layer_config \o <<17>>
    IN  sum_of_products(layers, 1) + sum(Tail(layers))

\* C12: the parameter count compute_parameters returned for each trained
\* architecture (the num_params entry of its result) is the number of weights
\* and biases of the network with 3 inputs, these hidden layers and 17 outputs
C12_CountsWeightsAndBiases ==
    \A j \in 1..Len(results) : results[j][1] = weights_and_biases(archs[j])

\* the half-open bins [bins[i], bins[i+1]) that hold the parameter count of
\* the j-th accepted architecture
BinsOfAccepted(j) ==
    LET total_params == compute_parameters(ra.architectures_list[j])
    IN  { i \in 1..(Len(ra.bins) - 1) :
            /\ RLeq(ra.bins[i], RInt(total_params))
            /\ RLess(RInt(total_params), ra.bins[i + 1]) }

\* C13: at every step of get_random_architectures each accepted architecture
\* has its layer count and neuron counts within the options' ranges, its
\* parameter count lies in a half-open bin, which is marked filled, no two
\* accepted architectures share a bin (so each was accepted into a bin that was
\* unfilled before), and the number of accepted architectures equals the
\* number of filled bins and is at most n_steps
C13_OneArchitecturePerBin ==
    ra.pc \in {"loop", "returned"} =>
        LET o == ra.options
            accepted == ra.architectures_list
        IN  /\ \A j \in 1..Len(accepted) :
                 /\ Len(accepted[j]) \in o.min_hidden_layers..o.max_hidden_layers
                 /\ \A k \in 1..Len(accepted[j]) :
                      accepted[j][k] \in o.min_neurons_per_layer..o.max_neurons_per_layer
                 /\ BinsOfAccepted(j) # {}
                 /\ \A i \in BinsOfAccepted(j) : ra.bin_filled[i]
            /\ \A j, k \in 1..Len(accepted) :
                 j # k => BinsOfAccepted(j) \cap BinsOfAccepted(k) = {}
            /\ Len(accepted) = Cardinality({i \in 1..Len(ra.bin_filled) : ra.bin_filled[i]})
            /\ Len(accepted) <= o.n_steps

\* two architectures were accepted into the two bins and the list was returned
C13_Witness ==
    /\ ra.pc = "returned"
    /\ ra.options.n_steps = 2
    /\ ra.architectures_list = <<<<2>>, <<1>>>>
    /\ ra.bin_filled = <<TRUE, TRUE>>

\* the calls of a run with RETRAIN_MODEL true over n architectures, in order
ExpectedCalls(n) ==
    LET before == <<"setup_dataset", "load_data", "write_architectures",
                    "plot_histogram_with_params">>
        per_architecture == <<"get_trained_nn", "evaluate_model", "evaluate_projection",
                              "append">>
    IN  [k \in 1..(4 + 4 * n + 1) |->
            IF k <= 4 THEN [call |-> before[k], idx |-> 0]
            ELSE IF k = 4 + 4 * n + 1 THEN [call |-> "write_results", idx |-> n]
            ELSE [call |-> per_architecture[((k - 5) % 4) + 1], idx |-> (k - 5) \div 4]]

\* C14: with RETRAIN_MODEL true the calls made so far are a prefix of: setup,
\* load, architectures.csv written, histogram, then for each architecture in
\* list order train, evaluate_model, evaluate_projection, append, and last one
\* write of results.csv; training starts only with the list on disk;
\* evaluate_projection projects the ensemble-mean predictions of the ensemble
\* trained for the current architecture; each result row belongs to the
\* architecture at its position; results.csv holds one row per architecture
\* in ascending order of num_params
C14_RunOrder ==
    options.RETRAIN_MODEL =>
        /\ Len(log) <= 4 + 4 * Len(archs) + 1
        /\ \A k \in 1..Len(log) :
             /\ log[k].call = ExpectedCalls(Len(archs))[k].call
             /\ log[k].idx = ExpectedCalls(Len(archs))[k].idx
        /\ Len(log) > 4 => fs.architectures = File(TRUE, writerows(archs))
        /\ Projected =>
             /\ ev.nn.normalized_model_predictions =
                    get_average_predictions(nn_models, normalized_inputs)
             /\ ev.proj.normalized_proj_predictions =
                    get_average_predictions_projected(ev.nn.normalized_model_predictions,
                                                      normalized_inputs, prep, w_matrix)
        /\ \A j \in 1..Len(results) : results[j][1] = compute_parameters(archs[j])
        /\ pc = "done" =>
             /\ Len(log) = 4 + 4 * Len(archs) + 1
             /\ fs.results = File(TRUE, df)
             /\ Len(fs.results.content.rows) = Len(archs)
             /\ \A a, b \in 1..Len(archs) :
                  a < b => fs.results.content.rows[a].num_params
                             <= fs.results.content.rows[b].num_params

\* a run over two architectures, the larger one first, has written results.csv
C14_Witness ==
    /\ options.RETRAIN_MODEL
    /\ pc = "done"
    /\ archs = <<<<2>>, <<1>>>>
    /\ fs.results.content.rows[1].architectures = <<1>>

\* C15: a call of main's get_trained_nn or get_trained_pinn trains at most
\* once; when the call is over it has trained exactly if RETRAIN_MODEL is true
\* or the checkpoint was loaded and one of its loss-history arrays (train
\* losses, validation losses, epochs) is empty; a checkpoint loaded with a
\* complete loss history is returned as loaded, with no training
C15_TrainsWhenNeeded ==
    gt.fn \in {"main.get_trained_nn", "main.get_trained_pinn"} =>
        /\ gt.trainings <= 1
        /\ gt.pc \in {"returned", "raised"} =>
             /\ gt.trainings = 1 <=>
                    \/ gt.RETRAIN_MODEL
                    \/ /\ gt.checkpoint.exists
                       /\ gt.loads = 1
                       /\ \/ gt.checkpoint.losses_train_mean = 0
                          \/ gt.checkpoint.losses_val_mean = 0
                          \/ gt.checkpoint.epoch = 0
             /\ ( /\ ~gt.RETRAIN_MODEL
                  /\ gt.checkpoint.exists
                  /\ gt.checkpoint.losses_train_mean > 0
                  /\ gt.checkpoint.losses_val_mean > 0
                  /\ gt.checkpoint.epoch > 0 ) =>
                    /\ gt.pc = "returned"
                    /\ gt.loads = 1
                    /\ gt.trainings = 0
                    /\ gt.returned = "loaded models"

\* a checkpoint whose validation losses alone are empty was loaded, and the
\* call trained once
C15_Witness ==
    /\ gt.fn = "main.get_trained_pinn"
    /\ gt.pc = "returned"
    /\ ~gt.RETRAIN_MODEL
    /\ gt.checkpoint.exists
    /\ gt.checkpoint.losses_train_mean > 0
    /\ gt.checkpoint.losses_val_mean = 0
    /\ gt.checkpoint.epoch > 0
    /\ gt.loads = 1
    /\ gt.trainings = 1
    /\ gt.returned = "trained models"

====
